---- MODULE Spec2Model ----
(***************************************************************************)
(* A model of media_platform/xhs/client.py: the XHSClient of MediaCrawler. *)
(* In Spec, SpecCrawl and SpecNote one client object serves one caller,    *)
(* which invokes one operation at a time; in SpecTasks tasks of one event  *)
(* loop share the client. Every await of the code is a step of its own.    *)
(***************************************************************************)
EXTENDS Integers, Sequences, FiniteSets, TLC

VARIABLES
  headers,          \* self.headers: header name -> value
  cookie_dict,      \* self.cookie_dict: cookie name -> value
  pc,               \* where the operation the caller invoked stands
  op,               \* the operation the caller invoked, with its arguments
  out,              \* what that operation gave its caller
  ncalls,           \* operations invoked so far
  rpc,              \* where the get / post / request in progress stands
  req,              \* its method, uri, data and whether it is signed
  encrypt_params,   \* _pre_headers' local: what window._webmsxyw returned
  sent,             \* the HTTP requests the operation has put on the wire
  response,         \* the HTTP response request() received
  decoded,          \* whether request() called response.json()
  rout,             \* what get / post / request gave its caller
  result,           \* get_note_all_comments' local
  comments_has_more, \* get_note_all_comments' local
  comments_cursor,  \* get_note_all_comments' local
  comments,         \* get_note_all_comments' local
  served,           \* the values get_note_comments returned to the crawl
  sink_calls,       \* the item lists the callback was awaited with
  sleeps,           \* the asyncio.sleep calls of the crawl
  opened,           \* the files upload_file opened
  images,           \* create_image_note's local: the image descriptors so far
  image_permit,     \* create_image_note's locals image_id and token
  granted,          \* the permits the upload service has granted
  rets,             \* what the calls create_image_note awaited gave it
  tasks,            \* the signed calls of concurrent tasks on one client
  refresh           \* the update_cookies of a concurrent task

session == <<headers, cookie_dict>>
call == <<pc, op, out, ncalls>>
http == <<rpc, req, encrypt_params, sent, response, decoded, rout>>
crawl == <<result, comments_has_more, comments_cursor, comments, served,
           sink_calls, sleeps>>
note == <<images, image_permit, granted, rets>>
conc == <<tasks, refresh>>
vars == <<session, call, http, crawl, opened, note, conc>>

(***************************************************************************)
(* Bounds of the model.                                                    *)
(***************************************************************************)
\* operations a caller invokes on one client, one after the other
MaxCalls == 2
\* pages one crawl fetches
MaxPages == 3
\* files of one image note
MaxFiles == 3
\* calls of update_cookies on one client
MaxRefreshes == 1

(***************************************************************************)
(* Python values. JSON null decodes to None, true / false to bool, numbers *)
(* to int, strings to str, arrays to list and objects to dict.             *)
(***************************************************************************)
None == [t |-> "None"]
PyBool(b) == [t |-> "bool", b |-> b]
PyInt(n) == [t |-> "int", n |-> n]
PyStr(s) == [t |-> "str", s |-> s]
PyList(a) == [t |-> "list", a |-> a]
PyDict(o) == [t |-> "dict", o |-> o]
EmptyDict == PyDict([k \in {} |-> None])

\* bool(v)
Truthy(v) ==
  CASE v.t = "None" -> FALSE
    [] v.t = "bool" -> v.b
    [] v.t = "int" -> v.n # 0
    [] v.t = "str" -> v.s # ""
    [] v.t = "list" -> Len(v.a) > 0
    [] v.t = "dict" -> DOMAIN v.o # {}
    [] OTHER -> TRUE

\* d.get(key, default) of a dict d
DictGet(d, key, default) == IF key \in DOMAIN d.o THEN d.o[key] ELSE default

(***************************************************************************)
(* Outcomes of a call: a returned value or a raised exception.             *)
(***************************************************************************)
Return(v) == [kind |-> "return", exc |-> "", value |-> v]
Raise(e, v) == [kind |-> "raise", exc |-> e, value |-> v]
NoOutcome == [kind |-> "none", exc |-> "", value |-> None]

(***************************************************************************)
(* __init__                                                                *)
(***************************************************************************)
Host == "https://edith.xiaohongshu.com"
\* the message of self.IP_ERROR_STR, in English
IP_ERROR_STR == "network connection abnormal, check the network settings or restart"
IP_ERROR_CODE == 300012
NOTE_ABNORMAL_CODE == -510001

(***************************************************************************)
(* HTTP responses: the length of response.text and what response.json()    *)
(* gives, a decoded document or a JSONDecodeError.                         *)
(***************************************************************************)
JSONDecodeError == [t |-> "JSONDecodeError"]
HttpResponse(n, doc) == [t |-> "Response", len |-> n, doc |-> doc]
EmptyResponse == HttpResponse(0, JSONDecodeError)
HtmlResponse == HttpResponse(6, JSONDecodeError)
JsonResponse(doc) == HttpResponse(2, doc)
NoResponse == [t |-> "NoResponse"]

\* the dicts over the keys ks whose values are drawn from vals[k]; a key
\* whose value is Absent is left out of the dict
Absent == [t |-> "absent"]
Present(pick) == {k \in DOMAIN pick : pick[k] # Absent}
DictOf(pick) == PyDict([k \in Present(pick) |-> pick[k]])

\* data["success"], data["code"], data.get("msg"), data.get("data") on the wire
SuccessValues == {Absent, PyBool(TRUE), PyBool(FALSE)}
CodeValues == {Absent, PyInt(IP_ERROR_CODE), PyInt(0), PyInt(NOTE_ABNORMAL_CODE)}
MsgValues == {Absent, PyStr("bad request"), PyStr(IP_ERROR_STR)}
DataValues == {Absent, None, PyDict([k \in {"items"} |-> PyList(<<PyStr("n1")>>)])}

Envelope(s, c, m, d) ==
  DictOf([k \in {"success", "code", "msg", "data"} |->
            CASE k = "success" -> s [] k = "code" -> c [] k = "msg" -> m [] OTHER -> d])

Envelopes == {Envelope(s, c, m, d) : s \in SuccessValues, c \in CodeValues,
                                     m \in MsgValues, d \in DataValues}

\* decodable JSON that is no object
NonObjects == {None, PyInt(0), PyStr("ok"), PyList(<<>>), PyBool(TRUE)}

ApiResponses ==
  {EmptyResponse, HtmlResponse} \cup {JsonResponse(d) : d \in Envelopes \cup NonObjects}

(***************************************************************************)
(* request(): lines 89-101, applied to the response the transport gave.    *)
(***************************************************************************)
\* line 89: whether request() reaches response.json()
Decodes(resp) == resp.len # 0

\* a faulty variant: the code is looked at before the success flag
ClassifyCodeFirst(data) ==
  IF data.t # "dict" THEN Raise("TypeError", None)
  ELSE IF "code" \notin DOMAIN data.o THEN Raise("KeyError", PyStr("code"))
  ELSE IF data.o["code"] = PyInt(IP_ERROR_CODE)
    THEN Raise("IPBlockError", PyStr(IP_ERROR_STR))
  ELSE IF "success" \notin DOMAIN data.o THEN Raise("KeyError", PyStr("success"))
  ELSE IF Truthy(data.o["success"])
    THEN Return(DictGet(data, "data", DictGet(data, "success", EmptyDict)))
  ELSE Raise("DataFetchError", DictGet(data, "msg", None))

\* lines 96-101 on the decoded document: data["k"] raises TypeError when data
\* is no dict and KeyError when the dict has no key k
Classify(data) ==
  IF data.t # "dict" THEN Raise("TypeError", None)
  ELSE IF "success" \notin DOMAIN data.o THEN Raise("KeyError", PyStr("success"))
  ELSE IF Truthy(data.o["success"])
    THEN Return(DictGet(data, "data", DictGet(data, "success", EmptyDict)))
  ELSE IF "code" \notin DOMAIN data.o THEN Raise("KeyError", PyStr("code"))
  ELSE IF data.o["code"] = PyInt(IP_ERROR_CODE)
    THEN Raise("IPBlockError", PyStr(IP_ERROR_STR))
  ELSE Raise("DataFetchError", DictGet(data, "msg", None))

\* a faulty variant: the JSONDecodeError is not caught
RequestResultUncaught(resp) ==
  IF ~Decodes(resp) THEN Return(resp)
  ELSE IF resp.doc = JSONDecodeError THEN Raise("JSONDecodeError", None)
  ELSE Classify(resp.doc)

\* lines 89-101
RequestResult(resp) ==
  IF ~Decodes(resp) THEN Return(resp)
  ELSE IF resp.doc = JSONDecodeError THEN Return(resp)
  ELSE Classify(resp.doc)

(***************************************************************************)
(* URLs and bodies. A dict of parameters is the sequence of its items, in  *)
(* insertion order.                                                        *)
(***************************************************************************)
Item(k, v) == [k |-> k, v |-> v]

\* seq[-1]
Last(seq) == seq[Len(seq)]

RECURSIVE Join(_, _)
Join(parts, sep) ==
  IF Len(parts) = 0 THEN ""
  ELSE IF Len(parts) = 1 THEN parts[1]
  ELSE parts[1] \o sep \o Join(Tail(parts), sep)

\* urllib.parse.urlencode on items whose values are str or int; the model's
\* strings hold only characters that quote_plus leaves as they are
UrlEncode(params) ==
  Join([i \in 1..Len(params) |->
          params[i].k \o "=" \o
          (IF params[i].v.t = "int" THEN ToString(params[i].v.n) ELSE params[i].v.s)],
       "&")

\* a dict literal of the code: its items in insertion order
PyItems(a) == [t |-> "items", a |-> a]

\* the JSON text of a value; a str of the model holds its characters as
\* json.dumps writes them, a quote as \" and a backslash as \\
RECURSIVE JsonValue(_)
JsonValue(v) ==
  CASE v.t = "None" -> "null"
    [] v.t = "bool" -> IF v.b THEN "true" ELSE "false"
    [] v.t = "int" -> ToString(v.n)
    [] v.t = "str" -> "\"" \o v.s \o "\""
    [] v.t = "list" -> "[" \o Join([i \in 1..Len(v.a) |-> JsonValue(v.a[i])], ",") \o "]"
    [] OTHER -> "{" \o Join([i \in 1..Len(v.a) |->
                               "\"" \o v.a[i].k \o "\":" \o JsonValue(v.a[i].v)],
                            ",") \o "}"

\* json.dumps(data, separators=(',', ':'), ensure_ascii=False) on the items of
\* the dict data
JsonDumps(data) == JsonValue(PyItems(data))

(***************************************************************************)
(* _pre_headers: the signing oracle of the page and help.sign.             *)
(***************************************************************************)
\* window._webmsxyw(url, data): a value that names what it signed; data is the
\* request's data object, "" standing for None
WebMsXyw(url, data) ==
  PyDict([k \in {"X-s", "X-t"} |->
            IF k = "X-s" THEN PyStr("XYW(" \o url \o "," \o data \o ")")
            ELSE PyInt(1700000000)])

\* window.localStorage, with and without the key b1
LocalStorages == {PyDict([k \in {"b1"} |-> PyStr("b1v")]), EmptyDict}

\* help.sign(a1, b1, x_s, x_t): the four values, a function of its arguments
sign(a1, b1, x_s, x_t) ==
  [k \in {"x-s", "x-t", "x-s-common", "x-b3-traceid"} |->
     CASE k = "x-s" -> x_s
       [] k = "x-t" -> x_t
       [] k = "x-s-common" -> "common(" \o a1 \o "," \o b1 \o "," \o x_s \o "," \o x_t \o ")"
       [] OTHER -> "trace(" \o x_t \o ")"]

\* str(v) of an int or a str
PyStrOf(v) == IF v.t = "int" THEN ToString(v.n) ELSE v.s

\* lines 57-62
Signs(cookies, local_storage, params) ==
  sign(IF "a1" \in DOMAIN cookies THEN cookies["a1"] ELSE "",
       DictGet(local_storage, "b1", PyStr("")).s,
       DictGet(params, "X-s", PyStr("")).s,
       PyStrOf(DictGet(params, "X-t", PyStr(""))))

\* a faulty variant: two of the four headers are written
SignatureHeadersPartial(signs) ==
  [k \in {"X-S", "X-T"} |-> IF k = "X-S" THEN signs["x-s"] ELSE signs["x-t"]]
\* lines 64-69
SignatureHeaders(signs) ==
  [k \in {"X-S", "X-T", "x-S-Common", "X-B3-Traceid"} |->
     CASE k = "X-S" -> signs["x-s"]
       [] k = "X-T" -> signs["x-t"]
       [] k = "x-S-Common" -> signs["x-s-common"]
       [] OTHER -> signs["x-b3-traceid"]]

\* a faulty variant: a key the dict holds keeps its value
DictSetDefault(d, u) ==
  [k \in DOMAIN d \cup DOMAIN u |-> IF k \in DOMAIN d THEN d[k] ELSE u[k]]
\* d.update(u) of dicts as functions
DictUpdate(d, u) ==
  [k \in DOMAIN d \cup DOMAIN u |-> IF k \in DOMAIN u THEN u[k] ELSE d[k]]

(***************************************************************************)
(* The requests of the model.                                              *)
(***************************************************************************)
NoPermit == [file_id |-> "", token |-> ""]
\* the tasks that share one client
Tasks == {1, 2}
NoReq == [method |-> "", uri |-> "", url |-> "", data |-> "", body |-> ""]
NoOp == [name |-> ""]
NoWire == [method |-> "", url |-> "", headers |-> [k \in {} |-> ""], body |-> ""]
\* a task that has called nothing yet: where its call stands, the call's
\* request, _pre_headers' local, whether no other call was in flight with it,
\* and the request its call put on the wire
NoTask == [pc |-> "idle", req |-> NoReq, encrypt_params |-> None, alone |-> TRUE,
           wire |-> NoWire]
\* update_cookies: where it stands and how often it has been called
NoRefresh == [pc |-> "idle", count |-> 0]

\* get(uri, params), lines 113-116: the uri that is signed and sent
FinalUri(uri, params) ==
  IF params = None THEN uri ELSE uri \o "?" \o UrlEncode(params.a)

\* the HTTP request client.request puts on the wire
WireOnce(method, url, hdrs, body) ==
  <<[method |-> method, url |-> url, headers |-> hdrs, body |-> body]>>
\* a faulty variant: the request is sent again
WireTwice(method, url, hdrs, body) ==
  WireOnce(method, url, hdrs, body) \o WireOnce(method, url, hdrs, body)
\* lines 84-88: one client.request per call of request()
Wire(method, url, hdrs, body) == WireOnce(method, url, hdrs, body)

(***************************************************************************)
(* The state after __init__, with the headers and cookies of a logged-in   *)
(* browser context.                                                        *)
(***************************************************************************)
Init ==
  /\ headers = [k \in {"Cookie", "User-Agent"} |->
                  IF k = "Cookie" THEN "a1=a1v" ELSE "ua"]
  /\ cookie_dict = [k \in {"a1"} |-> "a1v"]
  /\ pc = "idle" /\ op = NoOp /\ out = NoOutcome /\ ncalls = 0
  /\ rpc = "none" /\ req = NoReq /\ encrypt_params = None
  /\ sent = <<>> /\ response = NoResponse /\ decoded = FALSE /\ rout = NoOutcome
  /\ result = <<>> /\ comments_has_more = None /\ comments_cursor = None
  /\ comments = None /\ served = <<>> /\ sink_calls = <<>> /\ sleeps = 0
  /\ opened = <<>>
  /\ images = <<>> /\ image_permit = NoPermit /\ granted = <<>> /\ rets = <<>>
  /\ tasks = [t \in Tasks |-> NoTask] /\ refresh = NoRefresh

\* what an operation starts from: nothing sent, opened or returned yet
Fresh ==
  /\ out' = NoOutcome /\ ncalls' = ncalls + 1
  /\ sent' = <<>> /\ opened' = <<>>

\* what a get, post or request starts from: no response received yet
Awaiting ==
  /\ encrypt_params' = None /\ response' = NoResponse /\ decoded' = FALSE
  /\ rout' = NoOutcome

(***************************************************************************)
(* get and post, lines 103-133, to their first await (_pre_headers' first  *)
(* page.evaluate).                                                         *)
(***************************************************************************)
\* lines 113-118: what get(uri, params) has signed and sends
GetReq(uri, params) ==
  [method |-> "GET", uri |-> FinalUri(uri, params),
   url |-> Host \o FinalUri(uri, params), data |-> "", body |-> ""]

\* lines 130-133: what post(uri, data) has signed and sends
PostReq(uri, data) ==
  [method |-> "POST", uri |-> uri, url |-> Host \o uri,
   data |-> JsonDumps(data), body |-> JsonDumps(data)]

\* get(uri, params)
StartGet(uri, params) ==
  /\ req' = GetReq(uri, params)
  /\ rpc' = "encrypt"
  /\ Awaiting

\* post(uri, data)
StartPost(uri, data) ==
  /\ req' = PostReq(uri, data)
  /\ rpc' = "encrypt"
  /\ Awaiting

(***************************************************************************)
(* _pre_headers, lines 55-71, and the call of request that follows it.     *)
(***************************************************************************)
\* line 55: the first page.evaluate returns or raises
OracleEncrypt ==
  /\ rpc = "encrypt"
  /\ \/ /\ encrypt_params' = WebMsXyw(req.uri, req.data)
        /\ rpc' = "storage"
        /\ UNCHANGED rout
     \/ /\ rout' = Raise("PlaywrightError", None)
        /\ rpc' = "ret"
        /\ UNCHANGED encrypt_params
  /\ UNCHANGED <<note, conc, session, call, req, sent, response, decoded, crawl, opened>>

\* lines 56-71: the second page.evaluate returns or raises, or sign raises (a
\* SignError here);
\* when both return, the headers are signed and request() puts the request on
\* the wire
OracleStorage ==
  /\ rpc = "storage"
  /\ \/ \E local_storage \in LocalStorages :
          /\ headers' = DictUpdate(headers,
                          SignatureHeaders(Signs(cookie_dict, local_storage, encrypt_params)))
          /\ sent' = sent \o Wire(req.method, req.url, headers', req.body)
          /\ rpc' = "wire"
          /\ UNCHANGED rout
     \/ /\ rout' \in {Raise("PlaywrightError", None), Raise("SignError", None)}
        /\ rpc' = "ret"
        /\ UNCHANGED <<headers, sent>>
  /\ UNCHANGED <<note, conc, cookie_dict, call, req, encrypt_params, response, decoded,
                 crawl, opened>>

(***************************************************************************)
(* request, lines 84-101: the transport answers or fails.                  *)
(***************************************************************************)
\* the pages of comments: has_more, cursor and comments, each there or not
HasMoreValues == {Absent, PyBool(TRUE), PyBool(FALSE)}
CursorValues == {Absent, PyStr("c1")}
CommentLists == {Absent, PyList(<<>>), PyList(<<PyStr("a")>>),
                 PyList(<<PyStr("b"), PyStr("c")>>)}

Page(h, c, l) ==
  DictOf([k \in {"has_more", "cursor", "comments"} |->
            CASE k = "has_more" -> h [] k = "cursor" -> c [] OTHER -> l])

Pages == {Page(h, c, l) : h \in HasMoreValues, c \in CursorValues, l \in CommentLists}

\* what the comment endpoint answers: a page, or no page at all
CrawlResponses ==
  {JsonResponse(Envelope(PyBool(TRUE), PyInt(0), Absent, p)) : p \in Pages}
  \cup {EmptyResponse,
        JsonResponse(Envelope(PyBool(TRUE), PyInt(0), Absent, Absent)),
        JsonResponse(Envelope(PyBool(FALSE), PyInt(IP_ERROR_CODE), Absent, Absent)),
        JsonResponse(Envelope(PyBool(FALSE), PyInt(NOTE_ABNORMAL_CODE),
                              PyStr("bad request"), Absent))}

\* what the upload host answers
UploadResponses ==
  {EmptyResponse, HtmlResponse,
   JsonResponse(Envelope(PyBool(TRUE), Absent, Absent, Absent)),
   JsonResponse(Envelope(PyBool(FALSE), PyInt(0), PyStr("bad request"), Absent))}

\* the file id and the token of the n-th permit the upload service grants
FileId(n) == "fid" \o ToString(n)
Token(n) == "tok" \o ToString(n)
Grant(n) == [file_id |-> FileId(n), token |-> Token(n)]

\* one element of uploadTempPermits
PermitBlock(ids, token) ==
  PyDict([k \in {"fileIds", "token"} |-> IF k = "fileIds" THEN PyList(ids) ELSE PyStr(token)])
TempPermits(blocks) == PyDict([k \in {"uploadTempPermits"} |-> PyList(blocks)])

\* the data of the answers to the n-th permit request: the permit alone, the
\* permit followed by a second file id and a second block, no block, no list
PermitData(n) ==
  {TempPermits(<<PermitBlock(<<PyStr(FileId(n))>>, Token(n))>>),
   TempPermits(<<PermitBlock(<<PyStr(FileId(n)), PyStr("spare")>>, Token(n)),
                 PermitBlock(<<PyStr("other")>>, "othertok")>>),
   TempPermits(<<>>),
   EmptyDict}

PermitResponses(n) ==
  {JsonResponse(Envelope(PyBool(TRUE), PyInt(0), Absent, d)) : d \in PermitData(n)}
  \cup {EmptyResponse,
        JsonResponse(Envelope(PyBool(TRUE), PyInt(0), Absent, Absent)),
        JsonResponse(Envelope(PyBool(FALSE), PyInt(IP_ERROR_CODE), Absent, Absent)),
        JsonResponse(Envelope(PyBool(FALSE), PyInt(0), PyStr("bad request"), Absent))}

\* what the note endpoint answers
PublishResponses ==
  {EmptyResponse,
   JsonResponse(Envelope(PyBool(TRUE), PyInt(0), Absent,
                         PyDict([k \in {"id"} |-> PyStr("note1")]))),
   JsonResponse(Envelope(PyBool(TRUE), PyInt(0), Absent, Absent)),
   JsonResponse(Envelope(PyBool(FALSE), PyInt(IP_ERROR_CODE), Absent, Absent)),
   JsonResponse(Envelope(PyBool(FALSE), PyInt(NOTE_ABNORMAL_CODE),
                         PyStr("bad request"), Absent))}

\* what the endpoints of create_image_note answer
NoteResponses ==
  CASE pc = "note_permit" -> PermitResponses(Len(granted) + 1)
    [] pc = "note_upload" -> UploadResponses
    [] OTHER -> PublishResponses

\* what the search endpoint answers to pong: also a page without notes and a
\* page without the key items
PongResponses ==
  ApiResponses
  \cup {JsonResponse(Envelope(PyBool(TRUE), PyInt(0), Absent, d)) :
          d \in {PyDict([k \in {"items"} |-> PyList(<<>>)]), EmptyDict}}

ResponsesFor(o) ==
  CASE o.name = "get_note_all_comments" -> CrawlResponses
    [] o.name = "pong" -> PongResponses
    [] o.name = "upload_file" -> UploadResponses
    [] o.name = "create_image_note" -> NoteResponses
    [] OTHER -> ApiResponses

Respond ==
  /\ rpc = "wire"
  /\ \/ \E resp \in ResponsesFor(op) :
          /\ response' = resp
          /\ decoded' = Decodes(resp)
          /\ rout' = RequestResult(resp)
     \/ /\ rout' = Raise("TransportError", None)
        /\ UNCHANGED <<response, decoded>>
  /\ rpc' = "ret"
  /\ UNCHANGED <<note, conc, session, call, req, encrypt_params, sent, crawl, opened>>

(***************************************************************************)
(* The operations that are one get or post: get_self_info,                 *)
(* get_note_comments and get_note_by_keyword.                              *)
(***************************************************************************)
NoteIds == {"n1"}
Keywords == {"k1"}

\* lines 166-168
CallGetSelfInfo ==
  /\ pc = "idle" /\ ncalls < MaxCalls
  /\ op' = [name |-> "get_self_info"]
  /\ StartGet("/api/sns/web/v1/user/selfinfo", None)
  /\ pc' = "api"
  /\ Fresh
  /\ UNCHANGED <<note, conc, session, crawl>>

\* lines 227-232: the params of get_note_comments
CommentParams(note_id, cursor) ==
  PyList(<<Item("note_id", PyStr(note_id)), Item("cursor", cursor)>>)

\* lines 217-232
CallGetNoteComments ==
  /\ pc = "idle" /\ ncalls < MaxCalls
  /\ \E note_id \in NoteIds, cursor \in {"", "c1"} :
       /\ op' = [name |-> "get_note_comments"]
       /\ StartGet("/api/sns/web/v2/comment/page", CommentParams(note_id, PyStr(cursor)))
  /\ pc' = "api"
  /\ Fresh
  /\ UNCHANGED <<note, conc, session, crawl>>

\* lines 188-197: the data of get_note_by_keyword, with help.get_search_id's
\* value and the defaults of page, page_size, sort and note_type
SearchData(keyword) ==
  <<Item("keyword", PyStr(keyword)), Item("page", PyInt(1)),
    Item("page_size", PyInt(20)), Item("search_id", PyStr("sid")),
    Item("sort", PyStr("general")), Item("note_type", PyInt(0))>>

\* lines 170-197
CallGetNoteByKeyword ==
  /\ pc = "idle" /\ ncalls < MaxCalls
  /\ \E keyword \in Keywords :
       /\ op' = [name |-> "get_note_by_keyword"]
       /\ StartPost("/api/sns/web/v1/search/notes", SearchData(keyword))
  /\ pc' = "api"
  /\ Fresh
  /\ UNCHANGED <<note, conc, session, crawl>>

\* the get or post returns or raises, and so does the operation
ApiReturn ==
  /\ pc = "api" /\ rpc = "ret"
  /\ out' = rout
  /\ pc' = "done" /\ rpc' = "none"
  /\ UNCHANGED <<note, conc, session, op, ncalls, req, encrypt_params, sent, response, decoded,
                 rout, crawl, opened>>

(***************************************************************************)
(* get_note_all_comments, lines 255-283.                                   *)
(***************************************************************************)
\* lines 267-269
CallGetNoteAllComments ==
  /\ pc = "idle" /\ ncalls = 0
  /\ \E note_id \in NoteIds, callback \in BOOLEAN :
       op' = [name |-> "get_note_all_comments", note_id |-> note_id,
              callback |-> callback]
  /\ result' = <<>>
  /\ comments_has_more' = PyBool(TRUE)
  /\ comments_cursor' = PyStr("")
  /\ comments' = None /\ served' = <<>> /\ sink_calls' = <<>> /\ sleeps' = 0
  /\ pc' = "crawl_loop"
  /\ Fresh
  /\ UNCHANGED <<note, conc, session, http>>

\* line 270: while comments_has_more
LoopGoesOn(has_more) == Truthy(has_more)

\* a faulty variant: the first cursor is sent again
CursorStart(cursor) == PyStr("")
\* line 271: the cursor get_note_comments is called with
CursorArg(cursor) == cursor

\* lines 270-271: the loop test; get_note_comments is awaited or the crawl
\* returns its result
CrawlLoop ==
  /\ pc = "crawl_loop"
  /\ IF LoopGoesOn(comments_has_more)
       THEN /\ Len(served) < MaxPages
            /\ StartGet("/api/sns/web/v2/comment/page",
                        CommentParams(op.note_id, CursorArg(comments_cursor)))
            /\ pc' = "crawl_fetch"
            /\ UNCHANGED out
       ELSE /\ out' = Return(PyList(result))
            /\ pc' = "done"
            /\ UNCHANGED http
  /\ UNCHANGED <<note, conc, session, op, ncalls, sent, crawl, opened>>

\* a faulty variant: a page without comments counts as an empty page
LacksNever(page) == FALSE
\* line 274: "comments" not in comments_res
LacksComments(page) == "comments" \notin DOMAIN page.o

\* line 278: comments_res["comments"], the empty list standing in where the
\* key is missing and line 274 did not break
CommentsOf(page) == DictGet(page, "comments", PyList(<<>>))

\* a faulty variant: has_more is taken as true when the page has none
HasMoreDefaultTrue(page) == DictGet(page, "has_more", PyBool(TRUE))
\* line 272
HasMoreOf(page) == DictGet(page, "has_more", PyBool(FALSE))

\* line 273
CursorOf(page) == DictGet(page, "cursor", PyStr(""))

\* lines 271-279: get_note_comments returns a page or raises
CrawlPage ==
  /\ pc = "crawl_fetch" /\ rpc = "ret"
  /\ rpc' = "none"
  /\ \/ /\ rout.kind = "raise"
        /\ out' = rout
        /\ pc' = "done"
        /\ UNCHANGED crawl
     \/ /\ rout.kind = "return" /\ rout.value.t # "dict"
        /\ served' = Append(served, rout.value)
        /\ out' = Raise("AttributeError", None)
        /\ pc' = "done"
        /\ UNCHANGED <<result, comments_has_more, comments_cursor, comments,
                       sink_calls, sleeps>>
     \/ /\ rout.kind = "return" /\ rout.value.t = "dict"
        /\ served' = Append(served, rout.value)
        /\ comments_has_more' = HasMoreOf(rout.value)
        /\ comments_cursor' = CursorOf(rout.value)
        /\ IF LacksComments(rout.value)
             THEN /\ out' = Return(PyList(result))
                  /\ pc' = "done"
                  /\ UNCHANGED comments
             ELSE /\ comments' = CommentsOf(rout.value)
                  /\ pc' = IF op.callback THEN "crawl_callback" ELSE "crawl_sleep"
                  /\ UNCHANGED out
        /\ UNCHANGED <<result, sink_calls, sleeps>>
  /\ UNCHANGED <<note, conc, session, op, ncalls, req, encrypt_params, sent, response, decoded,
                 rout, opened>>

\* a faulty variant: the callback is skipped for a page without items
SinkSkipsEmpty(calls, items) == IF Len(items.a) = 0 THEN calls ELSE Append(calls, items)
\* line 280: callback(note_id, comments)
SinkCall(calls, items) == Append(calls, items)

\* lines 279-280: the callback is awaited; it returns or raises
CrawlCallback ==
  /\ pc = "crawl_callback"
  /\ sink_calls' = SinkCall(sink_calls, comments)
  /\ \/ /\ pc' = "crawl_sleep"
        /\ UNCHANGED out
     \/ /\ out' = Raise("CallbackError", None)
        /\ pc' = "done"
  /\ UNCHANGED <<note, conc, session, op, ncalls, http, result, comments_has_more,
                 comments_cursor, comments, served, sleeps, opened>>

\* a faulty variant: the items are put in front
ExtendFront(res, items) == items.a \o res
\* line 282: result.extend(comments)
Extend(res, items) == res \o items.a

\* line 281: asyncio.sleep(crawl_interval)
Sleep(n) == n + 1

\* lines 281-282
CrawlSleep ==
  /\ pc = "crawl_sleep"
  /\ sleeps' = Sleep(sleeps)
  /\ result' = Extend(result, comments)
  /\ pc' = "crawl_loop"
  /\ UNCHANGED <<note, conc, session, op, out, ncalls, http, comments_has_more, comments_cursor,
                 comments, served, sink_calls, opened>>

(***************************************************************************)
(* upload_file, lines 306-331.                                             *)
(***************************************************************************)
UploadHost == "https://ros-upload.xiaohongshu.com/"

\* os.path.getsize of the files of the model
FileSize ==
  [f \in {"empty.jpg", "under.mp4", "limit.mp4", "over.mp4", "big.mp4"} |->
     CASE f = "empty.jpg" -> 0
       [] f = "under.mp4" -> 5 * 1024 * 1024 - 1
       [] f = "limit.mp4" -> 5 * 1024 * 1024
       [] f = "over.mp4" -> 5 * 1024 * 1024 + 1
       [] OTHER -> 6 * 1024 * 1024]
ContentTypes == {"video/mp4", "image/jpeg", "image/png"}
Permits == {[file_id |-> "fid1", token |-> "tok1"]}

\* a faulty variant: the limit itself is refused
TooLargeAtLimit(size, content_type) ==
  size >= 5 * 1024 * 1024 /\ content_type = "video/mp4"
\* lines 322-324
TooLarge(size, content_type) ==
  size > 5 * 1024 * 1024 /\ content_type = "video/mp4"

\* a faulty variant: the PUT carries the session's headers too
UploadHeadersWithSession(token, content_type) ==
  DictUpdate(headers, [k \in {"X-Cos-Security-Token", "Content-Type"} |->
                         IF k = "X-Cos-Security-Token" THEN token ELSE content_type])
\* line 328
UploadHeaders(token, content_type) ==
  [k \in {"X-Cos-Security-Token", "Content-Type"} |->
     IF k = "X-Cos-Security-Token" THEN token ELSE content_type]

\* lines 322-331, to the await of request
CallUploadFile ==
  /\ pc = "idle" /\ ncalls < MaxCalls
  /\ \E permit \in Permits, file_path \in DOMAIN FileSize, content_type \in ContentTypes :
       /\ op' = [name |-> "upload_file", file_id |-> permit.file_id,
                 token |-> permit.token, file_path |-> file_path,
                 content_type |-> content_type]
       /\ IF TooLarge(FileSize[file_path], content_type)
            THEN /\ out' = Raise("Exception", PyStr("video too large, < 5M"))
                 /\ pc' = "done"
                 /\ sent' = <<>> /\ opened' = <<>>
                 /\ UNCHANGED <<rpc, req, encrypt_params, response, decoded, rout>>
            ELSE /\ opened' = <<file_path>>
                 /\ req' = [method |-> "PUT", uri |-> "", url |-> UploadHost \o permit.file_id,
                            data |-> "", body |-> file_path]
                 /\ sent' = Wire("PUT", UploadHost \o permit.file_id,
                                 UploadHeaders(permit.token, content_type), file_path)
                 /\ Awaiting
                 /\ rpc' = "wire"
                 /\ pc' = "upload"
                 /\ out' = NoOutcome
  /\ ncalls' = ncalls + 1
  /\ UNCHANGED <<note, conc, session, crawl>>

\* lines 330-331: request returns or raises, the file is closed
UploadReturn ==
  /\ pc = "upload" /\ rpc = "ret"
  /\ out' = rout
  /\ pc' = "done" /\ rpc' = "none"
  /\ UNCHANGED <<note, conc, session, op, ncalls, req, encrypt_params, sent, response, decoded,
                 rout, crawl, opened>>

(***************************************************************************)
(* get_upload_files_permit, lines 285-304.                                 *)
(***************************************************************************)
\* lines 293-299: the params, with count at its default
PermitParams(file_type) ==
  PyList(<<Item("biz_name", PyStr("spectrum")), Item("scene", PyStr(file_type)),
           Item("file_count", PyInt(1)), Item("version", PyStr("1")),
           Item("source", PyStr("web"))>>)

\* a faulty variant: the token is taken from the last block
PermitOfLastToken(res) ==
  IF res.t = "dict" /\ "uploadTempPermits" \in DOMAIN res.o
       /\ Len(res.o["uploadTempPermits"].a) > 0
    THEN LET blocks == res.o["uploadTempPermits"].a IN
         Return([t |-> "tuple", file_id |-> blocks[1].o["fileIds"].a[1].s,
                 token |-> blocks[Len(blocks)].o["token"].s])
    ELSE Raise("TypeError", None)
\* lines 301-304: the first file id of the first block and its token; a
\* subscript raises TypeError on what is no dict or list, KeyError on a dict
\* without the key and IndexError on an empty list
PermitOf(res) ==
  IF res.t # "dict" THEN Raise("TypeError", None)
  ELSE IF "uploadTempPermits" \notin DOMAIN res.o
    THEN Raise("KeyError", PyStr("uploadTempPermits"))
  ELSE IF res.o["uploadTempPermits"].t # "list" THEN Raise("TypeError", None)
  ELSE IF Len(res.o["uploadTempPermits"].a) = 0 THEN Raise("IndexError", None)
  ELSE LET temp_permit == res.o["uploadTempPermits"].a[1] IN
    IF temp_permit.t # "dict" THEN Raise("TypeError", None)
    ELSE IF "fileIds" \notin DOMAIN temp_permit.o THEN Raise("KeyError", PyStr("fileIds"))
    ELSE IF Len(temp_permit.o["fileIds"].a) = 0 THEN Raise("IndexError", None)
    ELSE IF "token" \notin DOMAIN temp_permit.o THEN Raise("KeyError", PyStr("token"))
    ELSE Return([t |-> "tuple", file_id |-> temp_permit.o["fileIds"].a[1].s,
                 token |-> temp_permit.o["token"].s])

\* lines 300-304: what get_upload_files_permit gives when get gave o
PermitResult(o) == IF o.kind = "raise" THEN o ELSE PermitOf(o.value)

(***************************************************************************)
(* create_note, lines 333-375.                                             *)
(***************************************************************************)
\* a quote inside a str, and a quote inside a str inside that str
Q == "\\\""
QQ == "\\\\\\\""

\* the post_time arguments of the model: none, one that strptime parses, with
\* its int(timestamp()) on a host whose time zone is UTC, and one it rejects
PostTimes == {None, PyStr("2023-10-11 12:11:11"), PyStr("tomorrow")}
Timestamp == [p \in {"2023-10-11 12:11:11"} |-> 1696997471]

\* lines 339-340: strptime raises ValueError on a post_time it cannot parse
PostTimeFails(post_time) == Truthy(post_time) /\ post_time.s \notin DOMAIN Timestamp

\* lines 339-341 and json.dumps: the text of post_time, seconds times 1000
PostTimeText(post_time) ==
  IF Truthy(post_time) THEN ToString(Timestamp[post_time.s]) \o "000"
  ELSE JsonValue(post_time)

\* lines 343-353 and 361: json.dumps(business_binds, separators=(",", ":"))
BusinessBinds(post_time) ==
  "{" \o Q \o "version" \o Q \o ":1," \o Q \o "noteId" \o Q \o ":0,"
      \o Q \o "noteOrderBind" \o Q \o ":{},"
      \o Q \o "notePostTiming" \o Q \o ":{" \o Q \o "postTime" \o Q \o ":"
      \o PostTimeText(post_time) \o "},"
      \o Q \o "noteCollectionBind" \o Q \o ":{" \o Q \o "id" \o Q \o ":" \o Q \o Q \o "}}"

\* line 360
NoteSource ==
  "{" \o Q \o "type" \o Q \o ":" \o Q \o "web" \o Q \o "," \o Q \o "ids" \o Q \o ":" \o Q \o Q
      \o "," \o Q \o "extraInfo" \o Q \o ":" \o Q \o "{" \o QQ \o "subType" \o QQ \o ":"
      \o QQ \o "official" \o QQ \o "}" \o Q \o "}"

\* lines 355-370
NoteData(title, desc, note_type, ats, topics, image_info, video_info, post_time, is_private) ==
  <<Item("common",
         PyItems(<<Item("type", PyStr(note_type)), Item("title", PyStr(title)),
                   Item("note_id", PyStr("")), Item("desc", PyStr(desc)),
                   Item("source", PyStr(NoteSource)),
                   Item("business_binds", PyStr(BusinessBinds(post_time))),
                   Item("ats", ats), Item("hash_tag", topics),
                   Item("post_loc", PyItems(<<>>)),
                   Item("privacy_info",
                        PyItems(<<Item("op_type", PyInt(1)),
                                  Item("type", PyInt(IF is_private THEN 1 ELSE 0))>>))>>)),
    Item("image_info", image_info),
    Item("video_info", video_info)>>

(***************************************************************************)
(* create_image_note, lines 377-413.                                       *)
(***************************************************************************)
\* the files of the model and the lists of them a note is made of
NoteFiles == {"empty.jpg", "big.mp4"}
NoteFileLists == UNION {[1..n -> NoteFiles] : n \in 0..MaxFiles}

\* lines 403-410: the descriptor of an uploaded image
ImageDescriptor(image_id) ==
  PyItems(<<Item("file_id", PyStr(image_id)),
            Item("metadata", PyItems(<<Item("source", PyInt(-1))>>)),
            Item("stickers", PyItems(<<Item("version", PyInt(2)),
                                       Item("floating", PyList(<<>>))>>)),
            Item("extra_info_json",
                 PyStr("{" \o Q \o "mimeType" \o Q \o ":" \o Q \o "image/jpeg" \o Q \o "}"))>>)

\* a faulty variant: the newest descriptor comes first
ImagesPrepend(imgs, d) == <<d>> \o imgs
\* line 403: images.append
ImagesAppend(imgs, d) == Append(imgs, d)

\* a faulty variant: a failed upload is passed over
AbortsNever(o) == FALSE
\* line 402 stands in no try: an exception of upload_file ends
\* create_image_note
Aborts(o) == o.kind = "raise"

\* what an awaited call gave create_image_note
Ret(name, o) == [call |-> name, kind |-> o.kind, exc |-> o.exc]

\* lines 395-399
CallCreateImageNote ==
  /\ pc = "idle" /\ ncalls = 0
  /\ \E files \in NoteFileLists, post_time \in PostTimes, is_private \in BOOLEAN :
       op' = [name |-> "create_image_note", title |-> "t", desc |-> "d",
              files |-> files, post_time |-> post_time, is_private |-> is_private]
  /\ images' = <<>> /\ image_permit' = NoPermit /\ granted' = <<>> /\ rets' = <<>>
  /\ pc' = "note_loop"
  /\ Fresh
  /\ UNCHANGED <<session, http, crawl, conc>>

\* lines 400-401 and 411-413, with create_note to its await of post: the next
\* file's permit is asked for, or the note is published
NoteLoop ==
  /\ pc = "note_loop"
  /\ IF Len(images) < Len(op.files)
       THEN /\ StartGet("/api/media/v1/upload/web/permit", PermitParams("image"))
            /\ pc' = "note_permit"
            /\ UNCHANGED <<out, rets>>
       ELSE IF PostTimeFails(op.post_time)
         THEN /\ out' = Raise("ValueError", None)
              /\ rets' = Append(rets, Ret("create_note", out'))
              /\ pc' = "done"
              /\ UNCHANGED <<rpc, req, encrypt_params, response, decoded, rout>>
         ELSE /\ StartPost("/web_api/sns/v2/note",
                           NoteData(op.title, op.desc, "normal", PyList(<<>>), PyList(<<>>),
                                    PyItems(<<Item("images", PyList(images))>>), None,
                                    op.post_time, op.is_private))
              /\ pc' = "note_publish"
              /\ UNCHANGED <<out, rets>>
  /\ UNCHANGED <<session, op, ncalls, sent, crawl, opened, images, image_permit, granted, conc>>

\* lines 401-402, with upload_file to its await of request: the permit call
\* returns or raises; with a permit, the file is opened and put on the wire
NotePermit ==
  /\ pc = "note_permit" /\ rpc = "ret"
  /\ rets' = Append(rets, Ret("get_upload_files_permit", PermitResult(rout)))
  /\ IF PermitResult(rout).kind = "raise"
       THEN /\ out' = PermitResult(rout)
            /\ pc' = "done" /\ rpc' = "none"
            /\ UNCHANGED <<image_permit, granted, opened, req, encrypt_params, sent,
                           response, decoded, rout>>
       ELSE LET got == PermitResult(rout).value
                file == op.files[Len(images) + 1] IN
            /\ image_permit' = [file_id |-> got.file_id, token |-> got.token]
            /\ granted' = Append(granted, Grant(Len(granted) + 1))
            /\ IF TooLarge(FileSize[file], "image/jpeg")
                 THEN /\ out' = Raise("Exception", PyStr("video too large, < 5M"))
                      /\ pc' = "done" /\ rpc' = "none"
                      /\ UNCHANGED <<opened, req, encrypt_params, sent, response, decoded, rout>>
                 ELSE /\ opened' = Append(opened, file)
                      /\ req' = [method |-> "PUT", uri |-> "", url |-> UploadHost \o got.file_id,
                                 data |-> "", body |-> file]
                      /\ sent' = sent \o Wire("PUT", UploadHost \o got.file_id,
                                              UploadHeaders(got.token, "image/jpeg"), file)
                      /\ Awaiting
                      /\ rpc' = "wire"
                      /\ pc' = "note_upload"
                      /\ UNCHANGED out
  /\ UNCHANGED <<session, op, ncalls, crawl, images, conc>>

\* lines 402-410: upload_file returns or raises; when it returns, whatever it
\* returns, the image's descriptor is appended
NoteUpload ==
  /\ pc = "note_upload" /\ rpc = "ret"
  /\ rets' = Append(rets, Ret("upload_file", rout))
  /\ IF Aborts(rout)
       THEN /\ out' = rout
            /\ pc' = "done"
            /\ UNCHANGED images
       ELSE /\ images' = ImagesAppend(images, ImageDescriptor(image_permit.file_id))
            /\ pc' = "note_loop"
            /\ UNCHANGED out
  /\ rpc' = "none"
  /\ UNCHANGED <<session, op, ncalls, req, encrypt_params, sent, response, decoded, rout,
                 crawl, opened, image_permit, granted, conc>>

\* lines 375 and 411: post returns or raises, and so do create_note and
\* create_image_note
NotePublish ==
  /\ pc = "note_publish" /\ rpc = "ret"
  /\ rets' = Append(rets, Ret("create_note", rout))
  /\ out' = rout
  /\ pc' = "done" /\ rpc' = "none"
  /\ UNCHANGED <<session, op, ncalls, req, encrypt_params, sent, response, decoded, rout,
                 crawl, opened, images, image_permit, granted, conc>>

(***************************************************************************)
(* pong, lines 135-151.                                                    *)
(***************************************************************************)
\* a faulty variant: an exception of the probe reaches the caller
PongPropagates(o) ==
  IF o.kind = "raise" THEN o
  ELSE Return(PyBool(o.value.t = "dict" /\ Truthy(DictGet(o.value, "items", None))))
\* lines 143-151: what pong gives when get_note_by_keyword gave o; the
\* AttributeError of note_card.get on what is no dict is an Exception too
PongOutcome(o) ==
  IF o.kind = "raise" THEN Return(PyBool(FALSE))
  ELSE IF o.value.t # "dict" THEN Return(PyBool(FALSE))
  ELSE Return(PyBool(Truthy(DictGet(o.value, "items", None))))

\* lines 142-145, with get_note_by_keyword to its first await; the keyword
\* stands for the one of line 145
CallPong ==
  /\ pc = "idle" /\ ncalls < MaxCalls
  /\ op' = [name |-> "pong"]
  /\ StartPost("/api/sns/web/v1/search/notes", SearchData("xiaohongshu"))
  /\ pc' = "pong"
  /\ Fresh
  /\ UNCHANGED <<session, crawl, note, conc>>

\* lines 145-151
PongReturn ==
  /\ pc = "pong" /\ rpc = "ret"
  /\ out' = PongOutcome(rout)
  /\ pc' = "done" /\ rpc' = "none"
  /\ UNCHANGED <<session, op, ncalls, req, encrypt_params, sent, response, decoded,
                 rout, crawl, opened, note, conc>>

(***************************************************************************)
(* update_cookies, lines 153-164.                                          *)
(***************************************************************************)
\* what browser_context.cookies() returns: the cookies of the login the client
\* was made with, those of a new login, and those of a context without a1
CookieSnapshots ==
  {<<[name |-> "a1", value |-> "a1v"]>>,
   <<[name |-> "a1", value |-> "a1w"], [name |-> "web_session", value |-> "ws"]>>,
   <<[name |-> "web_session", value |-> "ws"]>>}

\* utils.convert_cookies(cookies): the cookies as one header string and as a
\* dict from name to value, the last value of a name
ConvertCookies(cookies) ==
  [cookie_str |-> Join([i \in 1..Len(cookies) |->
                          cookies[i].name \o "=" \o cookies[i].value], ";"),
   cookie_dict |-> [n \in {cookies[i].name : i \in 1..Len(cookies)} |->
                      LET last == CHOOSE i \in 1..Len(cookies) :
                                    /\ cookies[i].name = n
                                    /\ \A j \in (i + 1)..Len(cookies) : cookies[j].name # n
                      IN cookies[last].value]]

\* a faulty variant: the item is not written
SetItemNever(d, k, v) == d
\* d[k] = v of a dict as a function
SetItem(d, k, v) == [x \in DOMAIN d \cup {k} |-> IF x = k THEN v ELSE d[x]]

\* line 162, to the await of browser_context.cookies()
RefreshCall ==
  /\ refresh.pc = "idle" /\ refresh.count < MaxRefreshes
  /\ refresh' = [pc |-> "cookies", count |-> refresh.count + 1]
  /\ UNCHANGED <<session, call, http, crawl, opened, note, tasks>>

\* lines 162-164: browser_context.cookies() returns, and the header and the
\* dict are assigned one after the other without an await, or it raises
RefreshReturn ==
  /\ refresh.pc = "cookies"
  /\ \/ \E cookies \in CookieSnapshots :
          /\ headers' = SetItem(headers, "Cookie", ConvertCookies(cookies).cookie_str)
          /\ cookie_dict' = ConvertCookies(cookies).cookie_dict
     \/ UNCHANGED session
  /\ refresh' = [refresh EXCEPT !.pc = "idle"]
  /\ UNCHANGED <<call, http, crawl, opened, note, tasks>>

(***************************************************************************)
(* get and post called by tasks that share the client, lines 45-133. Each  *)
(* await is a point where another task may run; whether entering the       *)
(* httpx.AsyncClient of line 84 suspends is the library's choice.          *)
(***************************************************************************)
\* the calls of the tasks: get_self_info and get_note_by_keyword
TaskCalls ==
  {GetReq("/api/sns/web/v1/user/selfinfo", None),
   PostReq("/api/sns/web/v1/search/notes", SearchData("k1"))}

InFlight(task) == task.pc \notin {"idle", "done"}

\* get or post is called, to the first await of _pre_headers
TaskCall(t) ==
  /\ ~InFlight(tasks[t]) /\ ncalls < MaxCalls
  /\ \E r \in TaskCalls :
       tasks' = [u \in Tasks |->
                   IF u = t
                     THEN [pc |-> "encrypt", req |-> r, encrypt_params |-> None,
                           alone |-> \A v \in Tasks \ {t} : ~InFlight(tasks[v]),
                           wire |-> NoWire]
                   ELSE IF InFlight(tasks[u]) THEN [tasks[u] EXCEPT !.alone = FALSE]
                   ELSE tasks[u]]
  /\ ncalls' = ncalls + 1
  /\ UNCHANGED <<session, pc, op, out, http, crawl, opened, note, refresh>>

\* line 55: the first page.evaluate returns or raises
TaskEncrypt(t) ==
  /\ tasks[t].pc = "encrypt"
  /\ \/ tasks' = [tasks EXCEPT ![t].encrypt_params = WebMsXyw(tasks[t].req.uri,
                                                             tasks[t].req.data),
                               ![t].pc = "storage"]
     \/ tasks' = [tasks EXCEPT ![t].pc = "done"]
  /\ UNCHANGED <<session, call, http, crawl, opened, note, refresh>>

\* lines 84-88: client.request builds the request from the headers it is given
\* and puts it on the wire
TaskWire(t, hdrs) ==
  Wire(tasks[t].req.method, tasks[t].req.url, hdrs, tasks[t].req.body)

\* lines 56-71 and 84: the second page.evaluate returns or raises; when it
\* returns, the shared headers are signed, and the request is built from them
\* now or, when entering the AsyncClient suspends, later
TaskSign(t) ==
  /\ tasks[t].pc = "storage"
  /\ \/ \E local_storage \in LocalStorages :
          /\ headers' = DictUpdate(headers,
                          SignatureHeaders(Signs(cookie_dict, local_storage,
                                                 tasks[t].encrypt_params)))
          /\ \/ tasks' = [tasks EXCEPT ![t].pc = "enter"]
             \/ tasks' = [tasks EXCEPT ![t].pc = "wire",
                                       ![t].wire = Last(TaskWire(t, headers'))]
     \/ /\ tasks' = [tasks EXCEPT ![t].pc = "done"]
        /\ UNCHANGED headers
  /\ UNCHANGED <<cookie_dict, call, http, crawl, opened, note, refresh>>

\* lines 84-88, after a suspension at line 84: the request is built from the
\* shared headers as they are now
TaskSend(t) ==
  /\ tasks[t].pc = "enter"
  /\ tasks' = [tasks EXCEPT ![t].pc = "wire", ![t].wire = Last(TaskWire(t, headers))]
  /\ UNCHANGED <<session, call, http, crawl, opened, note, refresh>>

\* lines 85-101: the transport answers or fails, and the call is over
TaskRespond(t) ==
  /\ tasks[t].pc = "wire"
  /\ tasks' = [tasks EXCEPT ![t].pc = "done"]
  /\ UNCHANGED <<session, call, http, crawl, opened, note, refresh>>

\* the caller takes the outcome; the client is ready for the next operation
Finish ==
  /\ pc = "done"
  /\ pc' = "idle"
  /\ UNCHANGED <<note, conc, session, op, out, ncalls, http, crawl, opened>>

Next ==
  \/ CallGetSelfInfo
  \/ CallGetNoteComments
  \/ CallGetNoteByKeyword
  \/ OracleEncrypt
  \/ OracleStorage
  \/ Respond
  \/ ApiReturn
  \/ CallUploadFile
  \/ UploadReturn
  \/ CallPong
  \/ PongReturn
  \/ Finish

\* a caller that invokes get_self_info, get_note_comments, get_note_by_keyword,
\* upload_file and pong
Spec == Init /\ [][Next]_vars

NextCrawl ==
  \/ CallGetNoteAllComments
  \/ CrawlLoop
  \/ OracleEncrypt
  \/ OracleStorage
  \/ Respond
  \/ CrawlPage
  \/ CrawlCallback
  \/ CrawlSleep

\* a caller that invokes get_note_all_comments on a new client
SpecCrawl == Init /\ [][NextCrawl]_vars

NextNote ==
  \/ CallCreateImageNote
  \/ NoteLoop
  \/ OracleEncrypt
  \/ OracleStorage
  \/ Respond
  \/ NotePermit
  \/ NoteUpload
  \/ NotePublish

\* a caller that invokes create_image_note on a new client
SpecNote == Init /\ [][NextNote]_vars

NextTasks ==
  \/ \E t \in Tasks : TaskCall(t)
  \/ \E t \in Tasks : TaskEncrypt(t)
  \/ \E t \in Tasks : TaskSign(t)
  \/ \E t \in Tasks : TaskSend(t)
  \/ \E t \in Tasks : TaskRespond(t)
  \/ RefreshCall
  \/ RefreshReturn

\* tasks that call get_self_info, get_note_by_keyword and update_cookies on
\* one client, each at any time
SpecTasks == Init /\ [][NextTasks]_vars

(***************************************************************************)
(* The properties of request, get and post.                                *)
(***************************************************************************)
\* request() has returned or raised on a response whose body decoded to a dict
Classified == rpc = "ret" /\ response # NoResponse /\ response.len # 0
                /\ response.doc # JSONDecodeError
Enveloped == Classified /\ response.doc.t = "dict"
SuccessIs(b) == "success" \in DOMAIN response.doc.o /\ response.doc.o["success"] = PyBool(b)
IPBlocked == Raise("IPBlockError", PyStr(IP_ERROR_STR))

\* C1: on an envelope with success = true, request returns the data field when
\* there is one and the success flag otherwise, whatever code and msg hold; it
\* raises nothing.
C1_SuccessReturnsData ==
  (Enveloped /\ SuccessIs(TRUE)) =>
    rout = Return(IF "data" \in DOMAIN response.doc.o THEN response.doc.o["data"]
                  ELSE PyBool(TRUE))

\* C1: a success envelope without data, with the IP-block code and its message
C1_Witness ==
  /\ Enveloped /\ SuccessIs(TRUE)
  /\ response.doc = Envelope(PyBool(TRUE), PyInt(IP_ERROR_CODE), PyStr(IP_ERROR_STR), Absent)
  /\ rout = Return(PyBool(TRUE))

\* C2: on an envelope with success = false, request raises IPBlockError with the
\* fixed message when code is 300012, whatever msg holds, and DataFetchError
\* carrying msg on every other envelope.
C2_FailureClassified ==
  (Enveloped /\ SuccessIs(FALSE)) =>
    IF "code" \in DOMAIN response.doc.o /\ response.doc.o["code"] = PyInt(300012)
      THEN rout = IPBlocked
      ELSE rout = Raise("DataFetchError",
                        IF "msg" \in DOMAIN response.doc.o THEN response.doc.o["msg"]
                        ELSE None)

\* C3: an empty body is returned as the response without a call of
\* response.json(); a body that does not decode is returned as the response
\* too; nothing is raised.
C3_RawResponseReturned ==
  (rpc = "ret" /\ response # NoResponse) =>
    /\ response.len = 0 => (rout = Return(response) /\ ~decoded)
    /\ (response.len # 0 /\ response.doc = JSONDecodeError) => rout = Return(response)

\* C3: the empty body, returned undecoded
C3_Witness ==
  /\ rpc = "ret" /\ response = EmptyResponse
  /\ rout = Return(EmptyResponse) /\ ~decoded

\* the four outcomes: a returned payload or response, DataFetchError, IPBlockError
FourOutcomes(o) ==
  \/ o.kind = "return"
  \/ o.kind = "raise" /\ o.exc \in {"DataFetchError", "IPBlockError"}

\* C4: every request that received a response ends in one of the four outcomes,
\* whatever the body holds.
C4_OneOfFourOutcomes ==
  (rpc = "ret" /\ response # NoResponse) => FourOutcomes(rout)

ApiOps == {"get_self_info", "get_note_comments", "get_note_by_keyword"}
\* the get or post reached request(): every other failure is the signing oracle's
ReachedRequest(o) == ~(o.kind = "raise" /\ o.exc \in {"PlaywrightError", "SignError"})

\* C5: a get or post that reaches request() puts exactly one HTTP request on
\* the wire, whatever the outcome, and its caller receives that outcome.
C5_OneRequestPerCall ==
  (op.name \in ApiOps /\ pc \in {"api", "done"}) =>
    /\ Len(sent) <= 1
    /\ rpc \in {"wire", "ret"} => (Len(sent) = 1 <=> (rpc = "wire" \/ ReachedRequest(rout)))
    /\ pc = "done" => (out = rout /\ (Len(sent) = 1 <=> ReachedRequest(out)))

\* C5: a transport failure, after one request, in the hands of the caller
C5_Witness ==
  /\ op.name \in ApiOps /\ pc = "done"
  /\ out = Raise("TransportError", None)
  /\ Len(sent) = 1

(***************************************************************************)
(* The properties of get_note_all_comments.                                *)
(***************************************************************************)
IsPage(v) == v.t = "dict"
HasItems(v) == IsPage(v) /\ "comments" \in DOMAIN v.o
MoreIs(v, b) == IsPage(v) /\ "has_more" \in DOMAIN v.o /\ v.o["has_more"] = PyBool(b)
\* the crawl goes on after this page
GoesOn(v) == HasItems(v) /\ MoreIs(v, TRUE)

RECURSIVE ItemsOf(_)
ItemsOf(pages) ==
  IF Len(pages) = 0 THEN <<>> ELSE pages[1].o["comments"].a \o ItemsOf(Tail(pages))

\* p1..pn with the items key, has_more true on all but the last, false on it
WellFormed(pages) ==
  /\ Len(pages) > 0
  /\ \A i \in 1..Len(pages) : HasItems(pages[i])
  /\ \A i \in 1..(Len(pages) - 1) : MoreIs(pages[i], TRUE)
  /\ MoreIs(Last(pages), FALSE)

Returned == pc = "done" /\ out.kind = "return"

\* C6: a crawl over well-formed pages p1..pn returns their items in page
\* order, awaits the callback once per page with that page's items, and sleeps
\* n times.
C6_PagesConcatenated ==
  (Returned /\ WellFormed(served)) =>
    /\ out.value = PyList(ItemsOf(served))
    /\ op.callback => sink_calls = [i \in 1..Len(served) |-> served[i].o["comments"]]
    /\ sleeps = Len(served)

\* C6: three pages, [a], [b, c] and [a]
C6_Witness ==
  /\ Returned /\ WellFormed(served) /\ op.callback
  /\ out.value = PyList(<<PyStr("a"), PyStr("b"), PyStr("c"), PyStr("a")>>)
  /\ Len(sink_calls) = 3 /\ sleeps = 3

\* C7: a page without the items key ends the crawl at once: it returns the
\* items of the earlier pages, raises nothing and requests no further page,
\* whatever has_more holds.
C7_MissingItemsStops ==
  (Len(served) > 0 /\ IsPage(Last(served)) /\ ~HasItems(Last(served))) =>
    /\ Returned
    /\ out.value = PyList(ItemsOf(SubSeq(served, 1, Len(served) - 1)))
    /\ Len(sent) = Len(served)

\* C7: the third page has has_more = true and no items key
C7_Witness ==
  /\ Len(served) = 3 /\ IsPage(Last(served)) /\ ~HasItems(Last(served))
  /\ MoreIs(Last(served), TRUE)
  /\ out = Return(PyList(<<PyStr("a"), PyStr("b"), PyStr("c")>>))

\* C8, as stated: the crawl has ended only if the last page fetched has has_more
\* false or absent, or lacks the items key.
C8_EndsOnlyOnLastPage ==
  pc = "done" => (Len(served) > 0 /\ IsPage(Last(served)) /\ ~GoesOn(Last(served)))

\* C8, amended: no page is requested after the first page that has has_more
\* false or absent or lacks the items key; the crawl returns only after such a
\* page; it ends otherwise only by an exception of the page request, of a
\* returned value that is no dict, or of the callback.
C8_StopsAtFirstLastPage ==
  /\ \A i \in 1..(Len(served) - 1) : GoesOn(served[i])
  /\ (Len(served) > 0 /\ ~GoesOn(Last(served))) => Len(sent) = Len(served)
  /\ Returned => (Len(served) > 0 /\ IsPage(Last(served)) /\ ~GoesOn(Last(served)))
  /\ (pc = "done" /\ out.kind = "raise") =>
       \/ out = rout
       \/ out.exc = "AttributeError" /\ Len(served) > 0 /\ ~IsPage(Last(served))
       \/ out.exc = "CallbackError" /\ op.callback /\ Len(sink_calls) = Len(served)

\* C8: the second page has items and no has_more
C8_Witness ==
  /\ Returned /\ Len(served) = 2
  /\ HasItems(Last(served)) /\ "has_more" \notin DOMAIN Last(served).o

\* a first page with an empty item list and has_more = false
EmptyFirstPage ==
  /\ Len(served) = 1 /\ HasItems(served[1]) /\ MoreIs(served[1], FALSE)
  /\ served[1].o["comments"] = PyList(<<>>)

\* C9, as stated: after a first page with zero items and has_more = false the
\* crawl returns an empty sequence and the callback is never awaited.
C9_EmptyPageSkipsSink ==
  (Returned /\ EmptyFirstPage) => (out.value = PyList(<<>>) /\ sink_calls = <<>>)

\* C9, amended: after a first page with zero items and has_more = false the
\* crawl returns an empty sequence, and a callback that was given is awaited
\* once, with the empty item list.
C9_EmptyPageReachesSink ==
  (Returned /\ EmptyFirstPage) =>
    /\ out.value = PyList(<<>>)
    /\ sink_calls = IF op.callback THEN <<PyList(<<>>)>> ELSE <<>>

\* C9: the callback has been awaited with the empty list
C9_Witness ==
  /\ Returned /\ EmptyFirstPage /\ op.callback
  /\ sink_calls = <<PyList(<<>>)>> /\ out.value = PyList(<<>>)

(***************************************************************************)
(* The properties of upload_file.                                          *)
(***************************************************************************)
Uploading == op.name = "upload_file" /\ pc \in {"upload", "done"}

\* C10: a video/mp4 file of more than 5 MiB is refused before any request is
\* sent and before the file is opened; a video of 5 MiB or less and an image
\* of any size are opened and sent in one PUT.
C10_OversizedVideoRefused ==
  Uploading =>
    IF op.content_type = "video/mp4" /\ FileSize[op.file_path] > 5242880
      THEN /\ pc = "done" /\ out.kind = "raise" /\ out.exc = "Exception"
           /\ sent = <<>> /\ opened = <<>>
      ELSE /\ opened = <<op.file_path>>
           /\ Len(sent) = 1 /\ sent[1].method = "PUT"
           /\ sent[1].url = UploadHost \o op.file_id

\* C10: the video of 5 MiB + 1 byte, refused
C10_Witness ==
  /\ Uploading /\ op.content_type = "video/mp4" /\ op.file_path = "over.mp4"
  /\ pc = "done" /\ out.kind = "raise" /\ sent = <<>> /\ opened = <<>>

(***************************************************************************)
(* The properties of create_image_note.                                    *)
(***************************************************************************)
Publishing == op.name = "create_image_note"
PermitUrl ==
  "https://edith.xiaohongshu.com/api/media/v1/upload/web/permit"
    \o "?biz_name=spectrum&scene=image&file_count=1&version=1&source=web"
NoteUrl == "https://edith.xiaohongshu.com/web_api/sns/v2/note"

\* the i-th request asks for a permit, transfers a file or publishes the note
IsPermit(i) == sent[i].method = "GET" /\ sent[i].url = PermitUrl
IsTransfer(i) == sent[i].method = "PUT"
IsPublish(i) == sent[i].method = "POST" /\ sent[i].url = NoteUrl

\* the awaited calls that have returned a value
Returns == {j \in 1..Len(rets) : rets[j].kind = "return"}

\* the transfers create_image_note has awaited to their end
Transfers == {j \in 1..Len(rets) : rets[j].call = "upload_file"}

\* the calls of create_note
Publications == {j \in 1..Len(rets) : rets[j].call = "create_note"}

\* the body of a note whose images are the files the permits were granted for,
\* in the order of the grants
NoteBodyOf(grants) ==
  JsonDumps(NoteData(op.title, op.desc, "normal", PyList(<<>>), PyList(<<>>),
                     PyItems(<<Item("images",
                                    PyList([k \in 1..Len(grants) |->
                                              ImageDescriptor(grants[k].file_id)]))>>),
                     None, op.post_time, op.is_private))

\* C11: the requests of create_image_note on n files are, in this order, the
\* permit request and the transfer of file 1, ..., those of file n and the
\* publication; a request goes out only when every request before it has
\* returned; create_note is called once when all n transfers have returned and
\* never before, and its request carries the descriptors of the n files in the
\* order of the input list.
C11_SequentialThenPublish ==
  Publishing =>
    /\ Len(sent) <= 2 * Len(op.files) + 1
    /\ Len(sent) <= Cardinality(Returns) + 1
    /\ \A i \in 1..Len(sent) :
         IF i > 2 * Len(op.files) THEN IsPublish(i)
         ELSE IF i % 2 = 1 THEN IsPermit(i)
         ELSE /\ IsTransfer(i)
              /\ sent[i].body = op.files[i \div 2]
              /\ sent[i].url = UploadHost \o granted[i \div 2].file_id
    /\ Len(sent) = 2 * Len(op.files) + 1 =>
         /\ Len(granted) = Len(op.files)
         /\ Cardinality(Returns) >= 2 * Len(op.files)
         /\ sent[Len(sent)].body = NoteBodyOf(granted)
    /\ Cardinality(Publications) <= 1
    /\ (pc = "done" /\ Cardinality(Transfers \cap Returns) = Len(op.files)) =>
         Publications = {Len(rets)}

\* C11: a note of two files is published
C11_Witness ==
  /\ Publishing /\ pc = "done" /\ out.kind = "return"
  /\ op.files = <<"big.mp4", "empty.jpg">>
  /\ Len(sent) = 5 /\ IsPublish(5)
  /\ sent[5].body = NoteBodyOf(<<Grant(1), Grant(2)>>)

\* C12: when the transfer of file k raises, create_image_note raises the same
\* exception at once: the failed PUT of file k is the last request, so that no
\* later file is asked a permit for or transferred and the note is not
\* published, and no request undoes the transfers of files 1..k-1.
C12_TransferFailureAborts ==
  Publishing =>
    \A j \in Transfers :
      rets[j].kind = "raise" =>
        /\ j = Len(rets)
        /\ pc = "done" /\ out.kind = "raise" /\ out.exc = rets[j].exc
        /\ Len(sent) = 2 * Cardinality(Transfers)
        /\ IsTransfer(Len(sent)) /\ sent[Len(sent)].body = op.files[Cardinality(Transfers)]
        /\ \A i \in 1..Len(sent) : IsPermit(i) \/ IsTransfer(i)
        /\ Len(images) = Cardinality(Transfers) - 1

\* C12: the second of three files fails to transfer
C12_Witness ==
  /\ Publishing /\ Len(op.files) = 3
  /\ Len(rets) = 4 /\ rets[4] = Ret("upload_file", Raise("DataFetchError", None))
  /\ pc = "done" /\ Len(sent) = 4

\* the PUTs that carry the file id or the token of a permit
UsesOf(g) ==
  {i \in 1..Len(sent) :
     /\ IsTransfer(i)
     /\ \/ sent[i].url = UploadHost \o g.file_id
        \/ sent[i].headers["X-Cos-Security-Token"] = g.token}

\* C19: the k-th permit granted is the answer to the request right before the
\* PUT of file k, which carries its file id and its token; no other PUT carries
\* either of them, no PUT goes without a permit of its own, and the descriptor
\* of file k holds the file id of that permit.
C19_PermitUsedOnceForItsFile ==
  Publishing =>
    /\ Cardinality({i \in 1..Len(sent) : IsTransfer(i)}) = Len(granted)
    /\ \A k \in 1..Len(granted) :
         /\ Len(sent) >= 2 * k
         /\ IsPermit(2 * k - 1)
         /\ IsTransfer(2 * k)
         /\ sent[2 * k].url = UploadHost \o granted[k].file_id
         /\ sent[2 * k].headers["X-Cos-Security-Token"] = granted[k].token
         /\ sent[2 * k].body = op.files[k]
         /\ UsesOf(granted[k]) = {2 * k}
    /\ Len(images) <= Len(granted)
    /\ \A k \in 1..Len(images) : images[k] = ImageDescriptor(granted[k].file_id)

\* C19: two files transferred, each under its own permit, and the note published
C19_Witness ==
  /\ Publishing /\ pc = "done" /\ Len(op.files) = 2 /\ Len(sent) = 5
  /\ granted = <<Grant(1), Grant(2)>>
  /\ sent[2].headers["X-Cos-Security-Token"] = "tok1"
  /\ sent[4].headers["X-Cos-Security-Token"] = "tok2"
  /\ images = <<ImageDescriptor("fid1"), ImageDescriptor("fid2")>>

(***************************************************************************)
(* The properties of pong.                                                 *)
(***************************************************************************)
Ponged == op.name = "pong" /\ pc = "done"

\* C13: pong raises nothing, whatever the probe did; it returns a bool, and
\* True only when the probe returned a dict whose items are a non-empty list.
C13_PongNeverRaises ==
  Ponged =>
    /\ out.kind = "return"
    /\ out.value \in {PyBool(TRUE), PyBool(FALSE)}
    /\ out.value = PyBool(TRUE) =>
         /\ rout.kind = "return" /\ rout.value.t = "dict"
         /\ "items" \in DOMAIN rout.value.o
         /\ rout.value.o["items"].t = "list" /\ Len(rout.value.o["items"].a) > 0

\* C13: the probe was refused as IP-blocked, and pong returned False
C13_Witness ==
  /\ Ponged /\ rout = IPBlocked
  /\ out = Return(PyBool(FALSE))

(***************************************************************************)
(* The properties of _pre_headers and of the session's headers.            *)
(***************************************************************************)
SignatureKeys == {"X-S", "X-T", "x-S-Common", "X-B3-Traceid"}

\* hdrs holds the four values sign gives for the oracle's answer params and a
\* local storage ls
SignedWith(hdrs, ls, params) ==
  LET signs == Signs(cookie_dict, ls, params) IN
  /\ SignatureKeys \subseteq DOMAIN hdrs
  /\ hdrs["X-S"] = signs["x-s"] /\ hdrs["X-T"] = signs["x-t"]
  /\ hdrs["x-S-Common"] = signs["x-s-common"]
  /\ hdrs["X-B3-Traceid"] = signs["x-b3-traceid"]

\* the oracle or sign has just failed
SigningFailed == rpc = "ret" /\ rout.kind = "raise"
                   /\ rout.exc \in {"PlaywrightError", "SignError"}

\* C17: a step of _pre_headers that fails, in either call of the oracle or in
\* sign, leaves the headers as they are; the only step that changes the headers
\* writes all four signature values of one signing at once and nothing else,
\* and the request that follows carries the session's headers themselves.
C17_NoPartialSignature ==
  [][/\ (rpc \in {"encrypt", "storage"} /\ SigningFailed') => headers' = headers
     /\ headers' # headers =>
          /\ rpc = "storage" /\ rpc' = "wire"
          /\ \E ls \in LocalStorages : SignedWith(headers', ls, encrypt_params)
          /\ DOMAIN headers' = DOMAIN headers \cup SignatureKeys
          /\ \A k \in DOMAIN headers \ SignatureKeys : headers'[k] = headers[k]
          /\ sent' = Append(sent, [method |-> req.method, url |-> req.url,
                                   headers |-> headers', body |-> req.body])]_vars

\* C17: the second call's signing failed after the oracle's first answer, and
\* the headers still hold the four values of the first call
C17_Witness ==
  /\ ncalls = 2 /\ SigningFailed /\ encrypt_params # None
  /\ SignatureKeys \subseteq DOMAIN headers
  /\ headers["X-S"] # encrypt_params.o["X-s"].s

\* a get or post of the operation has put its request on the wire and the
\* operation has returned or raised
SignedCallOver == op.name \in ApiOps \cup {"pong"} /\ pc = "done" /\ sent # <<>>

\* C16, as stated: once a signed get or post is over, the session's headers
\* hold none of the four signature values computed for it.
C16_SignatureRequestScoped ==
  SignedCallOver =>
    \A k \in SignatureKeys : ~(k \in DOMAIN headers /\ headers[k] = sent[1].headers[k])

\* C16, amended: the four signature values of a signed get or post stay in the
\* session's headers when the call is over, as the request carried them; a
\* later signed request carries the values signed for its own uri and data,
\* and the PUT of upload_file carries no signature value at all.
C16_SignatureKeptInSession ==
  /\ SignedCallOver => \A k \in SignatureKeys : headers[k] = sent[1].headers[k]
  /\ \A i \in 1..Len(sent) :
       IF sent[i].method = "PUT" THEN DOMAIN sent[i].headers \cap SignatureKeys = {}
       ELSE \E ls \in LocalStorages :
              SignedWith(sent[i].headers, ls, WebMsXyw(req.uri, req.data))

\* C16: after a signed call, upload_file has sent its PUT while the session's
\* headers still hold that call's signature
C16_Witness ==
  /\ ncalls = 2 /\ Uploading /\ sent # <<>>
  /\ SignatureKeys \subseteq DOMAIN headers
  /\ DOMAIN sent[1].headers \cap SignatureKeys = {}

(***************************************************************************)
(* The frame of upload_file.                                               *)
(***************************************************************************)
\* C20: while upload_file runs and when it is over, the session's headers and
\* cookies are what they were, the signing oracle has not been called, and the
\* one request on the wire, if any, is a PUT to the file id's url whose headers
\* are the permit token and the content type and nothing else.
C20_UploadIsOneUnsignedPut ==
  [][Uploading' =>
       /\ headers' = headers /\ cookie_dict' = cookie_dict
       /\ rpc' \notin {"encrypt", "storage"}
       /\ encrypt_params' \in {encrypt_params, None}
       /\ Len(sent') <= 1
       /\ \A i \in 1..Len(sent') :
            /\ sent'[i].method = "PUT"
            /\ sent'[i].url = "https://ros-upload.xiaohongshu.com/" \o op'.file_id
            /\ sent'[i].body = op'.file_path
            /\ DOMAIN sent'[i].headers = {"X-Cos-Security-Token", "Content-Type"}
            /\ sent'[i].headers["X-Cos-Security-Token"] = op'.token
            /\ sent'[i].headers["Content-Type"] = op'.content_type]_vars

\* C20: on a session that holds a cookie and a signature, upload_file has
\* returned what the upload host answered to its PUT
C20_Witness ==
  /\ Uploading /\ pc = "done" /\ out.kind = "return" /\ Len(sent) = 1
  /\ "Cookie" \in DOMAIN headers /\ SignatureKeys \subseteq DOMAIN headers
  /\ DOMAIN sent[1].headers = {"X-Cos-Security-Token", "Content-Type"}

(***************************************************************************)
(* The cursors of get_note_all_comments.                                   *)
(***************************************************************************)
Crawling == op.name = "get_note_all_comments"

\* the url of the comment page of a note from a cursor on
CommentPageUrl(note_id, cursor) ==
  "https://edith.xiaohongshu.com/api/sns/web/v2/comment/page?note_id=" \o note_id
    \o "&cursor=" \o cursor

\* the cursor the i-th page request has to carry: none for the first page,
\* then the one the page before returned, the empty string when it returned none
CursorDue(i) ==
  IF i = 1 THEN ""
  ELSE IF "cursor" \in DOMAIN served[i - 1].o THEN served[i - 1].o["cursor"].s
  ELSE ""

\* C18: the i-th page request of a crawl goes out when the pages before it
\* have been returned and no other is awaited; the first carries the empty
\* cursor and every later one the cursor of the page right before it, the
\* empty string when that page held none.
C18_CursorFollowsPreviousPage ==
  Crawling =>
    /\ Len(sent) <= Len(served) + 1
    /\ \A i \in 1..Len(sent) :
         /\ Len(served) >= i - 1
         /\ sent[i].method = "GET"
         /\ sent[i].url = CommentPageUrl(op.note_id, CursorDue(i))

\* C18: the first page returned a cursor and the second none; the third page
\* is requested from the empty cursor
C18_Witness ==
  /\ Crawling /\ Len(sent) = 3 /\ Len(served) >= 2
  /\ sent[1].url = CommentPageUrl("n1", "")
  /\ sent[2].url = CommentPageUrl("n1", "c1")
  /\ "cursor" \notin DOMAIN served[2].o
  /\ sent[3].url = CommentPageUrl("n1", "")

(***************************************************************************)
(* The properties of a client that tasks share.                            *)
(***************************************************************************)
\* the Cookie header of hdrs and the cookie dict jar are those of one answer
\* of browser_context.cookies()
Together(hdrs, jar) ==
  \E cookies \in CookieSnapshots :
    /\ hdrs["Cookie"] = ConvertCookies(cookies).cookie_str
    /\ jar = ConvertCookies(cookies).cookie_dict

\* C14: in every state, and so at every await where another task may run, the
\* Cookie header and the cookie dict of the session are those of one cookie
\* snapshot; a request that goes on the wire carries the Cookie header of the
\* snapshot the cookie dict holds at that moment, however update_cookies
\* interleaves with the calls in flight.
C14_CookiesRefreshedTogether ==
  [][/\ Together(headers, cookie_dict)
     /\ Together(headers', cookie_dict')
     /\ \A t \in Tasks :
          (tasks'[t].wire # tasks[t].wire /\ tasks'[t].wire # NoWire) =>
            Together(tasks'[t].wire.headers, cookie_dict')]_vars

\* hdrs holds the four values sign gives for the cookies jar, the local
\* storage ls and the oracle's answer params
SignedFor(hdrs, jar, ls, params) ==
  LET signs == Signs(jar, ls, params) IN
  /\ SignatureKeys \subseteq DOMAIN hdrs
  /\ hdrs["X-S"] = signs["x-s"] /\ hdrs["X-T"] = signs["x-t"]
  /\ hdrs["x-S-Common"] = signs["x-s-common"]
  /\ hdrs["X-B3-Traceid"] = signs["x-b3-traceid"]

\* the request a task put on the wire carries a signature of the request r
CarriesSignatureOf(task, r) ==
  /\ task.wire # NoWire
  /\ \E cookies \in CookieSnapshots, ls \in LocalStorages :
       SignedFor(task.wire.headers, ConvertCookies(cookies).cookie_dict, ls,
                 WebMsXyw(r.uri, r.data))

\* C14: update_cookies ran between the signing and the sending of a call: the
\* request carries the new Cookie header, which the session's cookie dict
\* matches, and a signature made with the old a1
C14_Witness ==
  /\ cookie_dict = [k \in {"a1", "web_session"} |-> IF k = "a1" THEN "a1w" ELSE "ws"]
  /\ headers["Cookie"] = "a1=a1w;web_session=ws"
  /\ \E t \in Tasks :
       /\ tasks[t].wire # NoWire
       /\ tasks[t].wire.headers["Cookie"] = "a1=a1w;web_session=ws"
       /\ \E ls \in LocalStorages :
            SignedFor(tasks[t].wire.headers, [k \in {"a1"} |-> "a1v"], ls,
                      WebMsXyw(tasks[t].req.uri, tasks[t].req.data))

\* C15: a signed call during which no other signed call was in flight puts its
\* request on the wire with the four signature values computed for its own uri
\* and data. (The witness is the other half: with two calls in flight, a
\* request goes out with the signature of the other call.)
C15_LoneCallCarriesOwnSignature ==
  \A t \in Tasks :
    (tasks[t].wire # NoWire /\ tasks[t].alone) => CarriesSignatureOf(tasks[t], tasks[t].req)

\* C15: two calls in flight; the request of one is on the wire with the
\* signature computed for the other's uri and data, not its own
C15_Witness ==
  \E t, u \in Tasks :
    /\ t # u /\ InFlight(tasks[t]) /\ InFlight(tasks[u])
    /\ tasks[t].req # tasks[u].req
    /\ CarriesSignatureOf(tasks[t], tasks[u].req)
    /\ ~CarriesSignatureOf(tasks[t], tasks[t].req)

====
